---- MODULE Spec2Model ----
(***************************************************************************)
(* Row-level-security policies and notification triggers of the rrhh       *)
(* recruitment application (Supabase / PostgreSQL migrations plus the      *)
(* client calls that issue the statements).                                *)
(*                                                                         *)
(* Every action is one SQL statement issued by an authenticated identity   *)
(* (auth.uid() = actor) through the generated client.  A statement runs    *)
(* its row policies, its constraints and its AFTER ROW triggers in one     *)
(* transaction: if any of them raises, nothing of the statement is kept    *)
(* and the caller gets an error.  None of the trigger functions is         *)
(* SECURITY DEFINER, so the rows a trigger inserts are checked against the *)
(* policies of the target table with the caller's identity.                *)
(*                                                                         *)
(* In a policy expression a column reference, qualified with the table     *)
(* name or not, denotes the row under test (the stored row for USING, the  *)
(* proposed row for WITH CHECK); there is no reference to the old row.     *)
(***************************************************************************)
EXTENDS Integers, Sequences, FiniteSets, TLC

VARIABLES profiles, job_offers, applications, messages, documents,
          selection_processes, notifications, email_notifications,
          activities, last,
          auth_users, document_versions, document_approvals,
          evaluation_templates, evaluation_criteria, candidate_evaluations,
          skill_assessments, assessment_questions,
          panel

tables == <<profiles, job_offers, applications, messages, documents,
            selection_processes, notifications, email_notifications,
            activities>>
\* the identities of auth.users, the tables of the documents' history, the
\* evaluation templates and the skill assessments, and the state of a
\* mounted NotificationsPanel
other_tables == <<auth_users, document_versions, document_approvals,
                  evaluation_templates, evaluation_criteria,
                  candidate_evaluations, skill_assessments,
                  assessment_questions, panel>>
vars == <<profiles, job_offers, applications, messages, documents,
          selection_processes, notifications, email_notifications,
          activities, last,
          auth_users, document_versions, document_approvals,
          evaluation_templates, evaluation_criteria, candidate_evaluations,
          skill_assessments, assessment_questions, panel>>

(***************************************************************************)
(* Bounds of the model                                                     *)
(***************************************************************************)
MaxProcesses == 1
MaxApplications == 1
MaxMessages == 1
MaxOffers == 1
MaxDocuments == 1
MaxActivities == 2
MaxAssessments == 2
MaxNotifications == 2
MaxEmails == 2
MaxVersion == 2
MaxVersions == 1
MaxTemplates == 2
MaxCriteria == 2
MaxEvaluations == 1
MaxApprovals == 1
MaxQuestions == 1

(***************************************************************************)
(* Identities and profiles                                                 *)
(***************************************************************************)
Users == {"u1", "u2", "u3"}
NULL == "null"
NoId == 0
Roles == {"candidato", "rrhh"}

\* EXISTS (SELECT 1 FROM profiles WHERE profiles.id = auth.uid()
\*         AND profiles.role = 'rrhh')
is_rrhh(uid) == profiles[uid].role = "rrhh"

SeqToSet(s) == {s[i] : i \in 1..Len(s)}

\* A sequence without its i-th element: the table after DELETE of one row
RemoveAt(s, i) ==
  [j \in 1..(Len(s) - 1) |-> IF j < i THEN s[j] ELSE s[j + 1]]

(***************************************************************************)
(* notifications                                                           *)
(***************************************************************************)
NotificationTypes == {"message", "application_status", "new_job_offer"}

\* policy "Users can read their notifications" (SELECT)
Users_can_read_their_notifications(uid, row) == row.user_id = uid

\* policy "Allow trigger-based notification creation" (INSERT, WITH CHECK)
Allow_trigger_based_notification_creation(uid, row) == is_rrhh(uid)

\* A transaction in progress: the rows appended so far by the statement's
\* triggers, and whether some insert has raised.
BeginTx == [ok |-> TRUE, notifications |-> notifications,
            email_notifications |-> email_notifications,
            activities |-> activities]

\* INSERT INTO notifications (...) VALUES (...) executed inside a trigger:
\* the INSERT policy, the NOT NULL columns and the type CHECK apply.
insert_notification(uid, row, tx) ==
  IF /\ tx.ok
     /\ Allow_trigger_based_notification_creation(uid, row)
     /\ row.user_id # NULL
     /\ row.type \in NotificationTypes
  THEN [tx EXCEPT !.notifications = Append(@, row)]
  ELSE [tx EXCEPT !.ok = FALSE]

Notification(user_id, type, content, related_id) ==
  [user_id |-> user_id, type |-> type, content |-> content,
   read |-> FALSE, related_id |-> related_id]

(***************************************************************************)
(* email_notifications                                                     *)
(***************************************************************************)
EmailTypes == {"process_update", "assessment_invitation",
               "interview_scheduled", "evaluation_complete"}

\* policy "RRHH can view all email notifications": no FOR clause, so it
\* applies to ALL commands, and its USING expression is also its WITH CHECK.
RRHH_can_view_all_email_notifications(uid, row) == is_rrhh(uid)

\* policy "Users can view their own email notifications" (SELECT)
Users_can_view_their_own_email_notifications(uid, row) ==
  row.recipient_id = uid

insert_email_notification(uid, row, tx) ==
  IF /\ tx.ok
     /\ RRHH_can_view_all_email_notifications(uid, row)
     /\ row.type \in EmailTypes
  THEN [tx EXCEPT !.email_notifications = Append(@, row)]
  ELSE [tx EXCEPT !.ok = FALSE]

Email(type, recipient_id, subject) ==
  [type |-> type, recipient_id |-> recipient_id, subject |-> subject,
   status |-> "pending"]

(***************************************************************************)
(* selection_processes                                                     *)
(***************************************************************************)
ProcessStatuses == {"pending", "in_progress", "completed", "rejected"}
\* the statuses a process is created with
NewProcessStatuses == {"pending"}
Assessments == {"a1", "a2"}

\* uuid[] values: arrays without repetition, in the order they were written
AssessmentArrays ==
  {s \in UNION {[1..n -> Assessments] : n \in 0..MaxAssessments} :
     \A i, j \in 1..Len(s) : i # j => s[i] # s[j]}

\* policy "RRHH can manage selection processes" (ALL, USING and WITH CHECK)
RRHH_can_manage_selection_processes(uid, row) == is_rrhh(uid)

\* policy "Candidates can view their own processes" (SELECT)
Candidates_can_view_their_own_processes(uid, row) == row.candidate_id = uid

\* CASE new.status WHEN ... END of create_process_update_notification
process_update_content(status) ==
  CASE status = "in_progress" -> <<"Tu proceso de seleccion ha comenzado">>
    [] status = "completed" -> <<"Tu proceso de seleccion ha finalizado">>
    [] status = "rejected" ->
         <<"Lo sentimos, tu proceso de seleccion ha sido rechazado">>
    [] OTHER -> <<"Tu proceso de seleccion ha sido actualizado">>

process_update_subject(status) ==
  CASE status = "in_progress" -> "Proceso de seleccion iniciado"
    [] status = "completed" -> "Proceso de seleccion completado"
    [] status = "rejected" -> "Actualizacion sobre tu postulacion"
    [] OTHER -> "Actualizacion del proceso de seleccion"

\* trigger function create_process_update_notification (AFTER UPDATE OF
\* status, FOR EACH ROW): one in-app notification, then one email row
create_process_update_notification(uid, new, tx) ==
  LET tx1 == insert_notification(uid,
               Notification(new.candidate_id, "process_update",
                            process_update_content(new.status), new.id), tx)
  IN insert_email_notification(uid,
       Email("process_update", new.candidate_id,
             process_update_subject(new.status)), tx1)

\* create_assessment_invitation without its WHERE new.required_assessments
\* <> '{}' clause
create_assessment_invitation_no_where(uid, new, old, tx) ==
  IF new.required_assessments # old.required_assessments
  THEN insert_email_notification(uid,
         Email("assessment_invitation", new.candidate_id,
               "Evaluacion de habilidades pendiente"), tx)
  ELSE tx

\* trigger function create_assessment_invitation (AFTER UPDATE OF
\* required_assessments, FOR EACH ROW)
create_assessment_invitation(uid, new, old, tx) ==
  IF /\ new.required_assessments # old.required_assessments
     /\ new.required_assessments # <<>>
  THEN insert_email_notification(uid,
         Email("assessment_invitation", new.candidate_id,
               "Evaluacion de habilidades pendiente"), tx)
  ELSE tx

\* The SET list of an UPDATE of selection_processes: the columns it
\* assigns and their values.
ProcessSets ==
  {[cols |-> {"status"}, status |-> s, required_assessments |-> <<>>] :
     s \in ProcessStatuses}
  \cup {[cols |-> {"required_assessments"}, status |-> "pending",
         required_assessments |-> r] : r \in AssessmentArrays}
  \cup {[cols |-> {"status", "required_assessments"}, status |-> s,
         required_assessments |-> r] :
          s \in {"in_progress"}, r \in {<<"a1">>}}

process_new_row(old, set) ==
  [old EXCEPT
     !.status = IF "status" \in set.cols THEN set.status ELSE @,
     !.required_assessments =
        IF "required_assessments" \in set.cols
        THEN set.required_assessments ELSE @]

\* The AFTER UPDATE triggers of selection_processes for one row, in name
\* order: assessment_invitation_trigger, process_update_notification_trigger.
\* A column trigger fires when its column is in the SET list.
process_update_triggers(uid, new, old, set, tx) ==
  LET tx1 == IF "required_assessments" \in set.cols
             THEN create_assessment_invitation(uid, new, old, tx)
             ELSE tx
  IN IF "status" \in set.cols
     THEN create_process_update_notification(uid, new, tx1)
     ELSE tx1

RECURSIVE process_update_rows(_, _, _, _, _)
process_update_rows(uid, ids, set, i, tx) ==
  IF i > Len(selection_processes) THEN tx
  ELSE LET old == selection_processes[i]
           hit == i \in ids /\ RRHH_can_manage_selection_processes(uid, old)
       IN process_update_rows(uid, ids, set, i + 1,
            IF hit
            THEN process_update_triggers(uid, process_new_row(old, set),
                                         old, set, tx)
            ELSE tx)

Fits(tx) ==
  /\ Len(tx.notifications) <= MaxNotifications
  /\ Len(tx.email_notifications) <= MaxEmails
  /\ Len(tx.activities) <= MaxActivities

\* The statement's outcome for the side tables: the trigger rows when the
\* transaction commits, nothing when it rolls back.
Commit(tx) ==
  /\ notifications' = IF tx.ok THEN tx.notifications ELSE notifications
  /\ email_notifications' =
       IF tx.ok THEN tx.email_notifications ELSE email_notifications
  /\ activities' = IF tx.ok THEN tx.activities ELSE activities

Result(tx) == IF tx.ok THEN "ok" ELSE "error"

\* INSERT INTO selection_processes (candidate_id, status)
InsertProcess ==
  \E uid \in Users, cand \in Users, st \in NewProcessStatuses :
    LET row == [id |-> Len(selection_processes) + 1, candidate_id |-> cand,
                status |-> st, required_assessments |-> <<>>]
        ok == RRHH_can_manage_selection_processes(uid, row)
    IN /\ Len(selection_processes) < MaxProcesses
       /\ selection_processes' =
            IF ok THEN Append(selection_processes, row)
            ELSE selection_processes
       /\ last' = [op |-> "insert_selection_processes", actor |-> uid,
                   ids |-> {row.id}, arg |-> row,
                   result |-> IF ok THEN "ok" ELSE "error"]
       /\ UNCHANGED <<profiles, job_offers, applications, messages,
                      documents, notifications, email_notifications,
                      activities>>
       /\ UNCHANGED other_tables

\* supabase.from('selection_processes').update(set).in('id', ids)
UpdateProcess ==
  \E uid \in Users, set \in ProcessSets,
     ids \in SUBSET (1..Len(selection_processes)) :
    LET tx == process_update_rows(uid, ids, set, 1, BeginTx)
    IN /\ ids # {}
       /\ Fits(tx)
       /\ selection_processes' =
            IF tx.ok
            THEN [i \in 1..Len(selection_processes) |->
                    IF i \in ids /\ RRHH_can_manage_selection_processes(
                                       uid, selection_processes[i])
                    THEN process_new_row(selection_processes[i], set)
                    ELSE selection_processes[i]]
            ELSE selection_processes
       /\ Commit(tx)
       /\ last' = [op |-> "update_selection_processes", actor |-> uid,
                   ids |-> ids, arg |-> set, result |-> Result(tx)]
       /\ UNCHANGED <<profiles, job_offers, applications, messages,
                      documents>>
       /\ UNCHANGED other_tables

(***************************************************************************)
(* Claims about selection_processes (SpecProcess)                          *)
(***************************************************************************)
\* The step is the statement UPDATE selection_processes SET <cols> WHERE
\* id = i, issued by an rrhh identity.
RRHHUpdatesProcess(i, cols) ==
  /\ last'.op = "update_selection_processes"
  /\ last'.ids = {i}
  /\ last'.arg.cols = cols
  /\ is_rrhh(last'.actor)

InvitationFor(cand) ==
  Email("assessment_invitation", cand, "Evaluacion de habilidades pendiente")

\* C1 (as claimed): when an rrhh identity updates a selection process from
\* status pending to in_progress, the update commits and appends exactly one
\* notifications row and exactly one email_notifications row, both for the
\* process's candidate_id.
C1_StatusUpdateNotifiesCandidate ==
  [][\A i \in 1..Len(selection_processes) :
       (/\ RRHHUpdatesProcess(i, {"status"})
        /\ last'.arg.status = "in_progress"
        /\ selection_processes[i].status = "pending")
       => /\ last'.result = "ok"
          /\ selection_processes'[i].status = "in_progress"
          /\ Len(notifications') = Len(notifications) + 1
          /\ notifications'[Len(notifications')].user_id =
               selection_processes[i].candidate_id
          /\ Len(email_notifications') = Len(email_notifications) + 1
          /\ email_notifications'[Len(email_notifications')].recipient_id =
               selection_processes[i].candidate_id]_vars

\* C5: an rrhh update of required_assessments alone commits; from [] to [a1]
\* it appends one assessment invitation (an email_notifications row) for the
\* process's candidate, from [a1] to [a1,a2] another one, from [a1] to []
\* none; it appends no in-app notifications row.
C5_AssessmentInvitations ==
  [][\A i \in 1..Len(selection_processes) :
       RRHHUpdatesProcess(i, {"required_assessments"})
       => LET old == selection_processes[i].required_assessments
              new == last'.arg.required_assessments
              cand == selection_processes[i].candidate_id
              invited == email_notifications' =
                           Append(email_notifications, InvitationFor(cand))
          IN /\ last'.result = "ok"
             /\ selection_processes'[i].required_assessments = new
             /\ notifications' = notifications
             /\ (old = <<>> /\ new = <<"a1">>) => invited
             /\ (old = <<"a1">> /\ new = <<"a1", "a2">>) => invited
             /\ (old = <<"a1">> /\ new = <<>>) =>
                  email_notifications' = email_notifications
             /\ invited \/ email_notifications' = email_notifications]_vars

\* C5 witness: after [] -> [a1] -> [a1,a2] the candidate has two invitations.
C5_Witness ==
  /\ last.op = "update_selection_processes"
  /\ last.result = "ok"
  /\ last.arg.cols = {"required_assessments"}
  /\ last.ids = {1}
  /\ Len(selection_processes) >= 1
  /\ selection_processes[1].required_assessments = <<"a1", "a2">>
  /\ email_notifications =
       <<InvitationFor(selection_processes[1].candidate_id),
         InvitationFor(selection_processes[1].candidate_id)>>

\* C11 (as claimed): a failure to append a notification or email row does
\* not undo the statement that fired the trigger: every update of
\* selection_processes by an rrhh identity returns without error and every
\* row it targets holds the new values.
C11_FanOutFailureKeepsMutation ==
  [][(last'.op = "update_selection_processes" /\ is_rrhh(last'.actor))
     => /\ last'.result = "ok"
        /\ \A i \in last'.ids :
             selection_processes'[i] =
               process_new_row(selection_processes[i], last'.arg)]_vars

\* C25 (as claimed): every UPDATE of selection_processes by an rrhh identity
\* that assigns the status column, also one that assigns the value a row
\* already has and one over several rows, commits and appends, for each
\* updated row, one notifications row and one process_update
\* email_notifications row for that row's candidate.
C25_StatusNotificationPerUpdate ==
  [][(/\ last'.op = "update_selection_processes"
      /\ is_rrhh(last'.actor)
      /\ "status" \in last'.arg.cols)
     => /\ last'.result = "ok"
        /\ Len(notifications') = Len(notifications) + Cardinality(last'.ids)
        /\ \A c \in Users :
             Cardinality({k \in (Len(email_notifications) + 1)
                                  ..Len(email_notifications') :
                            /\ email_notifications'[k].type = "process_update"
                            /\ email_notifications'[k].recipient_id = c})
             = Cardinality({i \in last'.ids :
                              selection_processes[i].candidate_id = c})
        /\ \A c \in Users :
             Cardinality({k \in (Len(notifications) + 1)..Len(notifications') :
                            notifications'[k].user_id = c})
             = Cardinality({i \in last'.ids :
                              selection_processes[i].candidate_id = c})]_vars

(***************************************************************************)
(* applications                                                            *)
(***************************************************************************)
ApplicationStates == {"pendiente", "aceptada", "rechazada"}

\* policy "RRHH can view all applications" (SELECT)
RRHH_can_view_all_applications(uid, row) == is_rrhh(uid)

\* policy "RRHH can manage applications" (ALL; USING only, so the same
\* expression is its WITH CHECK)
RRHH_can_manage_applications(uid, row) == is_rrhh(uid)

\* policy "Users can view their own applications" (SELECT)
Users_can_view_their_own_applications(uid, row) == row.user_id = uid

\* policy "Users can create applications" (INSERT, WITH CHECK)
Users_can_create_applications(uid, row) == row.user_id = uid

applications_select(uid, row) ==
  \/ RRHH_can_view_all_applications(uid, row)
  \/ RRHH_can_manage_applications(uid, row)
  \/ Users_can_view_their_own_applications(uid, row)

applications_insert_check(uid, row) ==
  \/ RRHH_can_manage_applications(uid, row)
  \/ Users_can_create_applications(uid, row)

applications_update_using(uid, row) ==
  /\ RRHH_can_manage_applications(uid, row)
  /\ applications_select(uid, row)

\* create_application_notification with a fixed text that does not embed
\* new.estado
create_application_notification_fixed_text(uid, new, old, tx) ==
  IF new.estado # old.estado
  THEN insert_notification(uid,
         Notification(new.user_id, "application_status",
                      <<"Tu postulacion ha sido ", "actualizada">>,
                      new.job_offer_id), tx)
  ELSE tx

\* create_application_notification without its IF NEW.estado != OLD.estado
create_application_notification_on_every_update(uid, new, old, tx) ==
  insert_notification(uid,
    Notification(new.user_id, "application_status",
                 <<"Tu postulacion ha sido ", new.estado>>,
                 new.job_offer_id), tx)

\* trigger function create_application_notification (AFTER UPDATE ON
\* applications, FOR EACH ROW)
create_application_notification(uid, new, old, tx) ==
  IF new.estado # old.estado
  THEN insert_notification(uid,
         Notification(new.user_id, "application_status",
                      <<"Tu postulacion ha sido ", new.estado>>,
                      new.job_offer_id), tx)
  ELSE tx

\* INSERT INTO applications (job_offer_id, user_id, estado); job_offer_id
\* is NULL or a foreign key to job_offers(id).  JobOfferDetail.handleApply
\* issues it with user_id = auth.uid() and the default estado.
InsertApplication ==
  \E uid \in Users, owner \in Users, e \in ApplicationStates,
     offer \in 0..Len(job_offers) :
    LET row == [id |-> Len(applications) + 1,
                job_offer_id |-> IF offer = 0 THEN NoId ELSE offer,
                user_id |-> owner, estado |-> e]
        ok == applications_insert_check(uid, row)
    IN /\ Len(applications) < MaxApplications
       /\ applications' = IF ok THEN Append(applications, row)
                          ELSE applications
       /\ last' = [op |-> "insert_applications", actor |-> uid,
                   ids |-> {row.id}, arg |-> row,
                   result |-> IF ok THEN "ok" ELSE "error"]
       /\ UNCHANGED <<profiles, job_offers, messages, documents,
                      selection_processes, notifications,
                      email_notifications, activities>>
       /\ UNCHANGED other_tables

\* supabase.from('applications').update({ estado }).eq('id', i)
UpdateApplication ==
  \E uid \in Users, i \in 1..Len(applications), e \in ApplicationStates :
    LET old == applications[i]
        new == [old EXCEPT !.estado = e]
        hit == applications_update_using(uid, old)
        tx == IF hit
              THEN create_application_notification(uid, new, old, BeginTx)
              ELSE BeginTx
    IN /\ Fits(tx)
       /\ applications' = IF hit /\ tx.ok
                          THEN [applications EXCEPT ![i] = new]
                          ELSE applications
       /\ Commit(tx)
       /\ last' = [op |-> "update_applications", actor |-> uid,
                   ids |-> {i}, arg |-> [estado |-> e],
                   result |-> Result(tx)]
       /\ UNCHANGED <<profiles, job_offers, messages, documents,
                      selection_processes>>
       /\ UNCHANGED other_tables

(***************************************************************************)
(* messages                                                                *)
(***************************************************************************)
\* policy "Users can read their messages" (SELECT)
Users_can_read_their_messages(uid, row) ==
  uid = row.sender_id \/ uid = row.receiver_id

\* policy "Users can create messages" (INSERT, WITH CHECK)
Users_can_create_messages(uid, row) == uid = row.sender_id

\* The same policy with only its receiver test
Users_can_mark_messages_as_read_receiver_only(uid, row) ==
  uid = row.receiver_id

\* policy "Users can mark messages as read" (UPDATE; USING only, so the same
\* expression is its WITH CHECK).  "read" and "messages.read" are the same
\* column of the same row.
Users_can_mark_messages_as_read(uid, row) ==
  /\ uid = row.receiver_id
  /\ (row.read = TRUE /\ row.read # row.read)

messages_update_using(uid, row) ==
  /\ Users_can_mark_messages_as_read(uid, row)
  /\ Users_can_read_their_messages(uid, row)

\* SELECT ... FROM profiles WHERE id = sender, under the profiles SELECT
\* policies "Users can view their own profile" and "RRHH can view all
\* profiles"
profiles_select(uid, row) == row.id = uid \/ is_rrhh(uid)

\* trigger function create_message_notification (AFTER INSERT ON messages,
\* FOR EACH ROW).  The content is NULL, which the NOT NULL column rejects,
\* when the sender's profile is not visible to the caller.
create_message_notification(uid, new, tx) ==
  IF profiles_select(uid, profiles[new.sender_id])
  THEN insert_notification(uid,
         Notification(new.receiver_id, "message",
                      <<"Mensaje de ", new.sender_id>>,
                      new.application_id), tx)
  ELSE [tx EXCEPT !.ok = FALSE]

\* INSERT INTO messages (sender_id, receiver_id, read, application_id);
\* application_id is NULL or a foreign key to applications(id).
\* MessagesPanel.handleSendMessage issues it with sender_id = auth.uid().
InsertMessage ==
  \E uid \in Users, sender \in Users, receiver \in Users, r \in BOOLEAN,
     app \in 0..Len(applications) :
    LET row == [id |-> Len(messages) + 1, sender_id |-> sender,
                receiver_id |-> receiver, read |-> r,
                application_id |-> IF app = 0 THEN NoId ELSE app]
        tx == IF Users_can_create_messages(uid, row)
              THEN create_message_notification(uid, row, BeginTx)
              ELSE [BeginTx EXCEPT !.ok = FALSE]
    IN /\ Len(messages) < MaxMessages
       /\ Fits(tx)
       /\ messages' = IF tx.ok THEN Append(messages, row) ELSE messages
       /\ Commit(tx)
       /\ last' = [op |-> "insert_messages", actor |-> uid,
                   ids |-> {row.id}, arg |-> row, result |-> Result(tx)]
       /\ UNCHANGED <<profiles, job_offers, applications, documents,
                      selection_processes>>
       /\ UNCHANGED other_tables

\* supabase.from('messages').update({ read }).eq('id', i), as issued by
\* MessagesPanel.fetchMessages and its subscription callback with read: true
UpdateMessage ==
  \E uid \in Users, i \in 1..Len(messages), r \in BOOLEAN :
    LET old == messages[i]
        new == [old EXCEPT !.read = r]
        hit == messages_update_using(uid, old)
        ok == hit => Users_can_mark_messages_as_read(uid, new)
    IN /\ messages' = IF hit /\ ok THEN [messages EXCEPT ![i] = new]
                      ELSE messages
       /\ last' = [op |-> "update_messages", actor |-> uid, ids |-> {i},
                   arg |-> [read |-> r],
                   result |-> IF ok THEN "ok" ELSE "error"]
       /\ UNCHANGED <<profiles, job_offers, applications, documents,
                      selection_processes, notifications,
                      email_notifications, activities>>
       /\ UNCHANGED other_tables

\* supabase.from('messages').select(): the rows the SELECT policy passes
SelectMessages(uid) ==
  {i \in 1..Len(messages) : Users_can_read_their_messages(uid, messages[i])}

\* DELETE FROM messages WHERE id = i: the table has no DELETE policy, so no
\* row is visible to the statement.
DeleteMessage ==
  \E uid \in Users, i \in 1..Len(messages) :
    /\ last' = [op |-> "delete_messages", actor |-> uid, ids |-> {i},
                arg |-> <<>>, result |-> "ok"]
    /\ UNCHANGED tables
    /\ UNCHANGED other_tables

(***************************************************************************)
(* activities                                                              *)
(***************************************************************************)
ActivityTypes == {"creacion", "modificacion", "eliminacion"}

\* policy "RRHH can view activities" (SELECT)
RRHH_can_view_activities(uid, row) == is_rrhh(uid)

\* policy "RRHH can manage activities" (ALL, USING and WITH CHECK)
RRHH_can_manage_activities(uid, row) == is_rrhh(uid)

\* INSERT INTO activities (...) executed inside a trigger: the policy, the
\* NOT NULL usuario_id and the tipo CHECK apply.
insert_activity(uid, row, tx) ==
  IF /\ tx.ok
     /\ RRHH_can_manage_activities(uid, row)
     /\ row.usuario_id # NULL
     /\ row.tipo \in ActivityTypes
  THEN [tx EXCEPT !.activities = Append(@, row)]
  ELSE [tx EXCEPT !.ok = FALSE]

(***************************************************************************)
(* job_offers                                                              *)
(***************************************************************************)
OfferStates == {"abierta", "cerrada"}

\* The same policy without its role test
Authenticated_can_manage_job_offers(uid, row) == TRUE

\* policy "RRHH can manage job offers" (ALL; USING only, so the same
\* expression is its WITH CHECK)
RRHH_can_manage_job_offers(uid, row) == is_rrhh(uid)

\* The same policy granting everyone
Everyone_can_view_job_offers(uid, row) == TRUE

\* policy "Everyone can view active job offers" (SELECT)
Everyone_can_view_active_job_offers(uid, row) == row.estado = "abierta"

job_offers_select(uid, row) ==
  \/ RRHH_can_manage_job_offers(uid, row)
  \/ Everyone_can_view_active_job_offers(uid, row)

\* supabase.from('job_offers').select(): the rows the SELECT policies pass
SelectJobOffers(uid) ==
  {i \in 1..Len(job_offers) : job_offers_select(uid, job_offers[i])}

\* The trigger function as it behaves when the trigger is declared AFTER
\* UPDATE only
log_job_offer_activity_on_update_only(uid, tg_op, row, tx) ==
  IF tg_op = "UPDATE"
  THEN insert_activity(uid,
         [tipo |-> "modificacion", usuario_id |-> row.created_by,
          oferta_id |-> row.id], tx)
  ELSE tx

\* trigger function log_job_offer_activity (AFTER INSERT OR UPDATE OR DELETE
\* ON job_offers, FOR EACH ROW)
log_job_offer_activity(uid, tg_op, row, tx) ==
  insert_activity(uid,
    [tipo |-> CASE tg_op = "INSERT" -> "creacion"
                [] tg_op = "UPDATE" -> "modificacion"
                [] OTHER -> "eliminacion",
     usuario_id |-> row.created_by, oferta_id |-> row.id], tx)

\* The query of the loop with its WHERE clause inverted
rrhh_profiles(uid) ==
  {u \in Users : profiles[u].role = "rrhh" /\ profiles_select(uid, profiles[u])}

\* The rows of SELECT id FROM profiles WHERE role != 'rrhh' that the caller
\* may see
non_rrhh_profiles(uid) ==
  {u \in Users : profiles[u].role # "rrhh" /\ profiles_select(uid, profiles[u])}

\* The orders in which the query, which has no ORDER BY, may return its rows
ProfileOrders(uid) ==
  LET rows == non_rrhh_profiles(uid)
      n == Cardinality(rows)
  IN {o \in [1..n -> rows] : \A i, j \in 1..n : i # j => o[i] # o[j]}

\* trigger function create_job_offer_notification (AFTER INSERT ON
\* job_offers, FOR EACH ROW): the FOR ... LOOP over the rows of the query,
\* in the order the query returns them
RECURSIVE create_job_offer_notification(_, _, _, _, _)
create_job_offer_notification(uid, new, order, k, tx) ==
  IF k > Len(order) THEN tx
  ELSE create_job_offer_notification(uid, new, order, k + 1,
         insert_notification(uid,
           Notification(order[k], "new_job_offer",
             <<"Se ha publicado una nueva oferta: ", "titulo">>,
             new.id), tx))

\* INSERT INTO job_offers (estado, created_by); PublishJobOffer.handleSubmit
\* issues it with created_by = auth.uid() and the default estado.  The
\* triggers run in name order: job_offer_activity_trigger, then
\* job_offer_notification_trigger.
InsertJobOffer ==
  \E uid \in Users, creator \in Users \cup {NULL}, e \in OfferStates :
  \E order \in ProfileOrders(uid) :
    LET row == [id |-> Len(job_offers) + 1, estado |-> e,
                created_by |-> creator]
        tx == IF RRHH_can_manage_job_offers(uid, row)
              THEN create_job_offer_notification(uid, row, order, 1,
                     log_job_offer_activity(uid, "INSERT", row, BeginTx))
              ELSE [BeginTx EXCEPT !.ok = FALSE]
    IN /\ Len(job_offers) < MaxOffers
       /\ Fits(tx)
       /\ job_offers' = IF tx.ok THEN Append(job_offers, row) ELSE job_offers
       /\ Commit(tx)
       /\ last' = [op |-> "insert_job_offers", actor |-> uid,
                   ids |-> {row.id}, arg |-> row, result |-> Result(tx)]
       /\ UNCHANGED <<profiles, applications, messages, documents,
                      selection_processes>>
       /\ UNCHANGED other_tables

\* UPDATE job_offers SET estado = e WHERE id = i
UpdateJobOffer ==
  \E uid \in Users, i \in 1..Len(job_offers), e \in OfferStates :
    LET old == job_offers[i]
        new == [old EXCEPT !.estado = e]
        hit == /\ RRHH_can_manage_job_offers(uid, old)
               /\ job_offers_select(uid, old)
        tx == IF hit THEN log_job_offer_activity(uid, "UPDATE", new, BeginTx)
              ELSE BeginTx
    IN /\ Fits(tx)
       /\ job_offers' = IF hit /\ tx.ok THEN [job_offers EXCEPT ![i] = new]
                        ELSE job_offers
       /\ Commit(tx)
       /\ last' = [op |-> "update_job_offers", actor |-> uid, ids |-> {i},
                   arg |-> [estado |-> e], result |-> Result(tx)]
       /\ UNCHANGED <<profiles, applications, messages, documents,
                      selection_processes>>
       /\ UNCHANGED other_tables

\* activities.oferta_id REFERENCES job_offers(id), tested at the end of the
\* statement: every activities row, the ones the statement's triggers
\* appended included, names a job_offers row the statement leaves.
activities_oferta_id_fkey(tx, offers) ==
  \A k \in 1..Len(tx.activities) :
    \E j \in 1..Len(offers) : offers[j].id = tx.activities[k].oferta_id

\* The rows the ON DELETE CASCADE of activities.oferta_id and of
\* applications.job_offer_id leave when job offer id is deleted
RECURSIVE cascade_rows(_, _, _)
cascade_rows(rows, col, id) ==
  IF rows = <<>> THEN <<>>
  ELSE IF Head(rows)[col] = id THEN cascade_rows(Tail(rows), col, id)
       ELSE <<Head(rows)>> \o cascade_rows(Tail(rows), col, id)

\* DELETE FROM job_offers WHERE id = i
DeleteJobOffer ==
  \E uid \in Users, i \in 1..Len(job_offers) :
    LET old == job_offers[i]
        hit == /\ RRHH_can_manage_job_offers(uid, old)
               /\ job_offers_select(uid, old)
        left == IF hit THEN RemoveAt(job_offers, i) ELSE job_offers
        tx0 == IF hit
               THEN log_job_offer_activity(uid, "DELETE", old,
                      [BeginTx EXCEPT
                         !.activities = cascade_rows(@, "oferta_id", old.id)])
               ELSE BeginTx
        tx == IF tx0.ok /\ ~activities_oferta_id_fkey(tx0, left)
              THEN [tx0 EXCEPT !.ok = FALSE] ELSE tx0
    IN /\ Fits(tx)
       /\ job_offers' = IF hit /\ tx.ok THEN left ELSE job_offers
       /\ applications' =
            IF hit /\ tx.ok
            THEN cascade_rows(applications, "job_offer_id", old.id)
            ELSE applications
       /\ Commit(tx)
       /\ last' = [op |-> "delete_job_offers", actor |-> uid, ids |-> {i},
                   arg |-> old, result |-> Result(tx)]
       /\ UNCHANGED <<profiles, messages, documents, selection_processes>>
       /\ UNCHANGED other_tables

(***************************************************************************)
(* direct statements on notifications                                      *)
(***************************************************************************)
\* supabase.from('notifications').select(): the rows the SELECT policy passes
SelectNotifications(uid) ==
  {i \in 1..Len(notifications) :
     Users_can_read_their_notifications(uid, notifications[i])}

\* policy "Users can mark their notifications as read" (UPDATE), USING
Users_can_mark_their_notifications_as_read_using(uid, row) ==
  row.user_id = uid

\* The WITH CHECK of the same policy with only its owner test
Users_can_mark_their_notifications_as_read_owner_only(uid, row) ==
  row.user_id = uid

\* policy "Users can mark their notifications as read" (UPDATE), WITH
\* CHECK, evaluated on the proposed row: "read" and "notifications.read"
\* are the same column of that row.
Users_can_mark_their_notifications_as_read_check(uid, row) ==
  /\ row.user_id = uid
  /\ (row.read = TRUE /\ row.read # row.read)

\* The SET lists of the UPDATE statements on notifications:
\* NotificationsPanel.markAsRead sets read to true.
NotificationSets ==
  {[col |-> "read", read |-> b, content |-> <<>>] : b \in BOOLEAN}
  \cup {[col |-> "content", read |-> FALSE, content |-> <<"edited">>]}

notification_new_row(old, set) ==
  IF set.col = "read" THEN [old EXCEPT !.read = set.read]
  ELSE [old EXCEPT !.content = set.content]

\* supabase.from('notifications').update(set).eq('id', i)
UpdateNotification ==
  \E uid \in Users, i \in 1..Len(notifications), set \in NotificationSets :
    LET old == notifications[i]
        new == notification_new_row(old, set)
        hit == /\ Users_can_mark_their_notifications_as_read_using(uid, old)
               /\ Users_can_read_their_notifications(uid, old)
        ok == hit =>
                Users_can_mark_their_notifications_as_read_check(uid, new)
    IN /\ notifications' = IF hit /\ ok
                           THEN [notifications EXCEPT ![i] = new]
                           ELSE notifications
       /\ last' = [op |-> "update_notifications", actor |-> uid,
                   ids |-> {i}, arg |-> set,
                   result |-> IF ok THEN "ok" ELSE "error"]
       /\ UNCHANGED <<profiles, job_offers, applications, messages,
                      documents, selection_processes, email_notifications,
                      activities>>
       /\ UNCHANGED other_tables

\* DELETE FROM notifications WHERE id = i: the table has no DELETE policy,
\* so no row is visible to the statement.
DeleteNotification ==
  \E uid \in Users, i \in 1..Len(notifications) :
    /\ last' = [op |-> "delete_notifications", actor |-> uid, ids |-> {i},
                arg |-> <<>>, result |-> "ok"]
    /\ UNCHANGED tables
    /\ UNCHANGED other_tables

(***************************************************************************)
(* documents                                                               *)
(***************************************************************************)
DocumentStatuses == {"pending", "approved", "rejected"}
ExpiryWindowDays == 30

\* expiry_date values: NULL, or a date given in days after the statement's
\* now()
NoExpiry == [null |-> TRUE, days |-> 0]
ExpiryDates ==
  {NoExpiry} \cup {[null |-> FALSE, days |-> d] : d \in {-1, 0, 1, 10, 30, 31, 40}}

\* policy "Users can view their own documents" (SELECT)
Users_can_view_their_own_documents(uid, row) == row.user_id = uid

\* policy "Users can manage their own documents" (ALL, USING and WITH CHECK)
Users_can_manage_their_own_documents(uid, row) == row.user_id = uid

\* policy "RRHH can view all documents" (SELECT)
RRHH_can_view_all_documents(uid, row) == is_rrhh(uid)

documents_select(uid, row) ==
  \/ Users_can_view_their_own_documents(uid, row)
  \/ Users_can_manage_their_own_documents(uid, row)
  \/ RRHH_can_view_all_documents(uid, row)

\* trigger function notify_document_status_change (AFTER UPDATE ON
\* documents, FOR EACH ROW)
notify_document_status_change(uid, new, old, tx) ==
  IF new.status # old.status
  THEN insert_notification(uid,
         Notification(new.user_id, "document_status",
           <<"El documento ", "title", " ha sido ",
             CASE new.status = "approved" -> "aprobado"
               [] new.status = "rejected" -> "rechazado"
               [] OTHER -> "actualizado">>,
           new.id), tx)
  ELSE tx

\* trigger function notify_document_expiry (AFTER INSERT OR UPDATE ON
\* documents, FOR EACH ROW)
notify_document_expiry(uid, new, tx) ==
  IF /\ ~new.expiry_date.null
     /\ new.expiry_date.days > 0
     /\ new.expiry_date.days <= 0 + ExpiryWindowDays
  THEN insert_notification(uid,
         Notification(new.user_id, "document_expiry",
           <<"El documento ", "title", " vencera el ", "expiry_date">>,
           new.id), tx)
  ELSE tx

\* INSERT INTO documents (status, expiry_date, user_id);
\* DocumentManager.handleFileUpload issues it with user_id = auth.uid()
\* and status 'pending'.
InsertDocument ==
  \E uid \in Users, owner \in Users, st \in DocumentStatuses,
     exp \in ExpiryDates :
    LET row == [id |-> Len(documents) + 1, user_id |-> owner,
                status |-> st, expiry_date |-> exp, version |-> 1,
                file_url |-> 1]
        tx == IF Users_can_manage_their_own_documents(uid, row)
              THEN notify_document_expiry(uid, row, BeginTx)
              ELSE [BeginTx EXCEPT !.ok = FALSE]
    IN /\ Len(documents) < MaxDocuments
       /\ Fits(tx)
       /\ documents' = IF tx.ok THEN Append(documents, row) ELSE documents
       /\ Commit(tx)
       /\ last' = [op |-> "insert_documents", actor |-> uid,
                   ids |-> {row.id}, arg |-> row, result |-> Result(tx)]
       /\ UNCHANGED <<profiles, job_offers, applications, messages,
                      selection_processes>>
       /\ UNCHANGED other_tables

\* The SET lists of the UPDATE statements on documents
DocumentSets ==
  {[col |-> "status", status |-> st, expiry_date |-> NoExpiry] :
     st \in DocumentStatuses}
  \cup {[col |-> "expiry_date", status |-> "pending", expiry_date |-> e] :
          e \in ExpiryDates}

document_new_row(old, set) ==
  IF set.col = "status" THEN [old EXCEPT !.status = set.status]
  ELSE [old EXCEPT !.expiry_date = set.expiry_date]

\* UPDATE documents SET <col> WHERE id = i.  The AFTER UPDATE triggers run
\* in name order: document_expiry_notification, then
\* document_status_notification.
UpdateDocument ==
  \E uid \in Users, i \in 1..Len(documents), set \in DocumentSets :
    LET old == documents[i]
        new == document_new_row(old, set)
        hit == /\ Users_can_manage_their_own_documents(uid, old)
               /\ documents_select(uid, old)
        tx == IF hit
              THEN IF Users_can_manage_their_own_documents(uid, new)
                   THEN notify_document_status_change(uid, new, old,
                          notify_document_expiry(uid, new, BeginTx))
                   ELSE [BeginTx EXCEPT !.ok = FALSE]
              ELSE BeginTx
    IN /\ Fits(tx)
       /\ documents' = IF hit /\ tx.ok THEN [documents EXCEPT ![i] = new]
                       ELSE documents
       /\ Commit(tx)
       /\ last' = [op |-> "update_documents", actor |-> uid, ids |-> {i},
                   arg |-> set, result |-> Result(tx)]
       /\ UNCHANGED <<profiles, job_offers, applications, messages,
                      selection_processes>>
       /\ UNCHANGED other_tables

(***************************************************************************)
(* document_versions                                                       *)
(***************************************************************************)
\* policy "Users can view their document versions" (SELECT)
Users_can_view_their_document_versions(uid, row) ==
  \E i \in 1..Len(documents) :
    /\ documents[i].id = row.document_id
    /\ documents[i].user_id = uid
    /\ documents_select(uid, documents[i])

\* policy "RRHH can view all document versions" (SELECT)
RRHH_can_view_all_document_versions(uid, row) == is_rrhh(uid)

\* The policies of document_versions that apply to INSERT: both policies
\* of the table are FOR SELECT, so no policy admits a new row.
document_versions_insert_check(uid, row) == FALSE

\* DocumentManager.handleUpdateDocument(documentId, file): upload the file;
\* UPDATE documents SET file_url, version = document.version + 1,
\* status = 'pending' WHERE id = i; if that returned no error, INSERT INTO
\* document_versions the replaced version and file_url.  Each statement is
\* its own transaction.  file_url values are numbered in upload order.
UpdateDocumentFile ==
  \E uid \in Users, i \in 1..Len(documents) :
    LET old == documents[i]
        new == [old EXCEPT !.file_url = old.file_url + 1,
                           !.version = old.version + 1,
                           !.status = "pending"]
        hit == /\ Users_can_manage_their_own_documents(uid, old)
               /\ documents_select(uid, old)
        tx == IF hit
              THEN IF Users_can_manage_their_own_documents(uid, new)
                   THEN notify_document_status_change(uid, new, old,
                          notify_document_expiry(uid, new, BeginTx))
                   ELSE [BeginTx EXCEPT !.ok = FALSE]
              ELSE BeginTx
        version_row == [id |-> Len(document_versions) + 1,
                        document_id |-> old.id, version |-> old.version,
                        file_url |-> old.file_url]
        version_ok == tx.ok /\ document_versions_insert_check(uid,
                                                              version_row)
    IN /\ old.version < MaxVersion
       /\ Len(document_versions) < MaxVersions
       /\ Fits(tx)
       /\ documents' = IF hit /\ tx.ok THEN [documents EXCEPT ![i] = new]
                       ELSE documents
       /\ Commit(tx)
       /\ document_versions' = IF version_ok
                               THEN Append(document_versions, version_row)
                               ELSE document_versions
       /\ last' = [op |-> "handleUpdateDocument", actor |-> uid,
                   ids |-> {i}, arg |-> [file_url |-> new.file_url],
                   result |-> IF version_ok THEN "ok" ELSE "error"]
       /\ UNCHANGED panel
       /\ UNCHANGED <<profiles, job_offers, applications, messages,
                      selection_processes, auth_users, document_approvals,
                      evaluation_templates, evaluation_criteria,
                      candidate_evaluations, skill_assessments,
                      assessment_questions>>

(***************************************************************************)
(* evaluation_templates, evaluation_criteria, candidate_evaluations        *)
(***************************************************************************)
TemplateIds == 1..MaxTemplates
CriterionIds == 1..MaxCriteria
EvaluationIds == 1..MaxEvaluations

\* candidate_evaluations.status CHECK
EvaluationStatuses == {"pending", "passed", "failed"}
\* the status values a statement may carry
EvaluationStatusInputs == EvaluationStatuses \cup {"completed"}

\* policy "RRHH can manage evaluation templates" (ALL, USING and WITH CHECK)
RRHH_can_manage_evaluation_templates(uid, row) == is_rrhh(uid)

\* policy "RRHH can manage evaluation criteria" (ALL, USING and WITH CHECK)
RRHH_can_manage_evaluation_criteria(uid, row) == is_rrhh(uid)

\* policy "RRHH can manage evaluations" (ALL, USING and WITH CHECK)
RRHH_can_manage_evaluations(uid, row) == is_rrhh(uid)

\* INSERT INTO evaluation_templates: handleCreateTemplate
InsertTemplate ==
  \E uid \in Users, t \in TemplateIds \ evaluation_templates :
    LET ok == RRHH_can_manage_evaluation_templates(uid, [id |-> t])
    IN /\ evaluation_templates' = IF ok THEN evaluation_templates \cup {t}
                                  ELSE evaluation_templates
       /\ last' = [op |-> "insert_evaluation_templates", actor |-> uid,
                   ids |-> {t}, arg |-> <<>>,
                   result |-> IF ok THEN "ok" ELSE "error"]
       /\ UNCHANGED panel
       /\ UNCHANGED <<tables, auth_users, document_versions,
                      document_approvals, evaluation_criteria,
                      candidate_evaluations, skill_assessments,
                      assessment_questions>>

\* INSERT INTO evaluation_criteria (template_id); template_id is a foreign
\* key to evaluation_templates(id)
InsertCriterion ==
  \E uid \in Users, t \in evaluation_templates,
     c \in CriterionIds \ {r.id : r \in evaluation_criteria} :
    LET row == [id |-> c, template_id |-> t]
        ok == RRHH_can_manage_evaluation_criteria(uid, row)
    IN /\ evaluation_criteria' = IF ok THEN evaluation_criteria \cup {row}
                                 ELSE evaluation_criteria
       /\ last' = [op |-> "insert_evaluation_criteria", actor |-> uid,
                   ids |-> {c}, arg |-> row,
                   result |-> IF ok THEN "ok" ELSE "error"]
       /\ UNCHANGED panel
       /\ UNCHANGED <<tables, auth_users, document_versions,
                      document_approvals, evaluation_templates,
                      candidate_evaluations, skill_assessments,
                      assessment_questions>>

\* INSERT INTO candidate_evaluations (stage_id, template_id, status):
\* template_id is NULL or a foreign key to evaluation_templates(id);
\* process_id stands for the selection process of the row's stage_id (NULL
\* when the row has no stage), the table has no column of that name.
InsertEvaluation ==
  \E uid \in Users, t \in evaluation_templates \cup {NoId},
     p \in 0..Len(selection_processes), st \in EvaluationStatusInputs,
     e \in EvaluationIds \ {r.id : r \in candidate_evaluations} :
    LET row == [id |-> e, template_id |-> t,
                process_id |-> IF p = 0 THEN NoId ELSE p, status |-> st]
        ok == /\ RRHH_can_manage_evaluations(uid, row)
              /\ st \in EvaluationStatuses
    IN /\ candidate_evaluations' =
            IF ok THEN candidate_evaluations \cup {row}
            ELSE candidate_evaluations
       /\ last' = [op |-> "insert_candidate_evaluations", actor |-> uid,
                   ids |-> {e}, arg |-> row,
                   result |-> IF ok THEN "ok" ELSE "error"]
       /\ UNCHANGED panel
       /\ UNCHANGED <<tables, auth_users, document_versions,
                      document_approvals, evaluation_templates,
                      evaluation_criteria, skill_assessments,
                      assessment_questions>>

\* The rows of evaluation_criteria left by the deletion of template t when
\* the foreign key does not cascade
criteria_without_cascade(t) == evaluation_criteria

\* The rows of evaluation_criteria left by the deletion of template t:
\* template_id REFERENCES evaluation_templates(id) ON DELETE CASCADE
criteria_after_delete(t) ==
  {r \in evaluation_criteria : r.template_id # t}

\* candidate_evaluations.template_id REFERENCES evaluation_templates(id),
\* with no ON DELETE action: a referenced template cannot be deleted
template_is_referenced(t) ==
  \E r \in candidate_evaluations : r.template_id = t

\* supabase.from('evaluation_templates').delete().eq('id', t):
\* handleDeleteTemplate
DeleteTemplate ==
  \E uid \in Users, t \in evaluation_templates :
    LET hit == RRHH_can_manage_evaluation_templates(uid, [id |-> t])
        ok == hit => ~template_is_referenced(t)
    IN /\ evaluation_templates' = IF hit /\ ok
                                  THEN evaluation_templates \ {t}
                                  ELSE evaluation_templates
       /\ evaluation_criteria' = IF hit /\ ok THEN criteria_after_delete(t)
                                 ELSE evaluation_criteria
       /\ last' = [op |-> "delete_evaluation_templates", actor |-> uid,
                   ids |-> {t}, arg |-> <<>>,
                   result |-> IF ok THEN "ok" ELSE "error"]
       /\ UNCHANGED panel
       /\ UNCHANGED <<tables, auth_users, document_versions,
                      document_approvals, candidate_evaluations,
                      skill_assessments, assessment_questions>>

\* trigger function notify_evaluation_complete (AFTER UPDATE OF status ON
\* candidate_evaluations, FOR EACH ROW): for NEW.status = 'completed' it
\* reads NEW.process_id, a field the row type does not have, which raises.
notify_evaluation_complete(uid, new, tx) ==
  IF new.status = "completed" THEN [tx EXCEPT !.ok = FALSE] ELSE tx

\* supabase.from('candidate_evaluations').update({ status }).eq('id', e):
\* handleEvaluationUpdate.  The status CHECK is tested on the new row
\* before the AFTER trigger runs.
UpdateEvaluation ==
  \E uid \in Users, old \in candidate_evaluations,
     st \in EvaluationStatusInputs :
    LET new == [old EXCEPT !.status = st]
        hit == RRHH_can_manage_evaluations(uid, old)
        tx == IF hit
              THEN IF /\ RRHH_can_manage_evaluations(uid, new)
                      /\ st \in EvaluationStatuses
                   THEN notify_evaluation_complete(uid, new, BeginTx)
                   ELSE [BeginTx EXCEPT !.ok = FALSE]
              ELSE BeginTx
    IN /\ Fits(tx)
       /\ candidate_evaluations' =
            IF hit /\ tx.ok
            THEN (candidate_evaluations \ {old}) \cup {new}
            ELSE candidate_evaluations
       /\ Commit(tx)
       /\ last' = [op |-> "update_candidate_evaluations", actor |-> uid,
                   ids |-> {old.id}, arg |-> [status |-> st],
                   result |-> Result(tx)]
       /\ UNCHANGED panel
       /\ UNCHANGED <<profiles, job_offers, applications, messages,
                      documents, selection_processes, auth_users,
                      document_versions, document_approvals,
                      evaluation_templates, evaluation_criteria,
                      skill_assessments, assessment_questions>>

(***************************************************************************)
(* document_approvals                                                      *)
(***************************************************************************)
ApprovalStatuses == {"approved", "rejected"}

\* policy "RRHH can manage approvals" (FOR ALL, USING and WITH CHECK)
RRHH_can_manage_approvals(uid, row) == is_rrhh(uid)

\* policy "Users can view their document approvals" (SELECT)
Users_can_view_their_document_approvals(uid, row) ==
  \E i \in 1..Len(documents) :
    /\ documents[i].id = row.document_id
    /\ documents[i].user_id = uid
    /\ documents_select(uid, documents[i])

document_approvals_select(uid, row) ==
  \/ RRHH_can_manage_approvals(uid, row)
  \/ Users_can_view_their_document_approvals(uid, row)

\* INSERT INTO document_approvals (document_id, approver_id, status);
\* document_id is a foreign key to documents(id)
InsertApproval ==
  \E uid \in Users, approver \in Users, d \in 1..Len(documents),
     st \in ApprovalStatuses :
    LET row == [id |-> Len(document_approvals) + 1, document_id |-> d,
                approver_id |-> approver, status |-> st]
        ok == RRHH_can_manage_approvals(uid, row)
    IN /\ Len(document_approvals) < MaxApprovals
       /\ document_approvals' = IF ok THEN Append(document_approvals, row)
                                ELSE document_approvals
       /\ last' = [op |-> "insert_document_approvals", actor |-> uid,
                   ids |-> {row.id}, arg |-> row,
                   result |-> IF ok THEN "ok" ELSE "error"]
       /\ UNCHANGED panel
       /\ UNCHANGED <<tables, auth_users, document_versions,
                      evaluation_templates, evaluation_criteria,
                      candidate_evaluations, skill_assessments,
                      assessment_questions>>

\* UPDATE document_approvals SET status = st WHERE id = i
UpdateApproval ==
  \E uid \in Users, i \in 1..Len(document_approvals),
     st \in ApprovalStatuses :
    LET old == document_approvals[i]
        new == [old EXCEPT !.status = st]
        hit == /\ RRHH_can_manage_approvals(uid, old)
               /\ document_approvals_select(uid, old)
        ok == hit => RRHH_can_manage_approvals(uid, new)
    IN /\ document_approvals' =
            IF hit /\ ok THEN [document_approvals EXCEPT ![i] = new]
            ELSE document_approvals
       /\ last' = [op |-> "update_document_approvals", actor |-> uid,
                   ids |-> {i}, arg |-> [status |-> st],
                   result |-> IF ok THEN "ok" ELSE "error"]
       /\ UNCHANGED panel
       /\ UNCHANGED <<tables, auth_users, document_versions,
                      evaluation_templates, evaluation_criteria,
                      candidate_evaluations, skill_assessments,
                      assessment_questions>>

\* DELETE FROM document_approvals WHERE id = i
DeleteApproval ==
  \E uid \in Users, i \in 1..Len(document_approvals) :
    LET old == document_approvals[i]
        hit == /\ RRHH_can_manage_approvals(uid, old)
               /\ document_approvals_select(uid, old)
    IN /\ document_approvals' = IF hit THEN RemoveAt(document_approvals, i)
                                ELSE document_approvals
       /\ last' = [op |-> "delete_document_approvals", actor |-> uid,
                   ids |-> {i}, arg |-> <<>>, result |-> "ok"]
       /\ UNCHANGED panel
       /\ UNCHANGED <<tables, auth_users, document_versions,
                      evaluation_templates, evaluation_criteria,
                      candidate_evaluations, skill_assessments,
                      assessment_questions>>

(***************************************************************************)
(* direct statements on activities                                         *)
(***************************************************************************)
\* supabase.from('activities').select(): the rows the policies pass
SelectActivities(uid) ==
  {i \in 1..Len(activities) :
     \/ RRHH_can_view_activities(uid, activities[i])
     \/ RRHH_can_manage_activities(uid, activities[i])}

\* UPDATE activities SET tipo = t WHERE id = i
UpdateActivity ==
  \E uid \in Users, i \in 1..Len(activities), t \in ActivityTypes :
    LET old == activities[i]
        new == [old EXCEPT !.tipo = t]
        hit == RRHH_can_manage_activities(uid, old)
        ok == hit => RRHH_can_manage_activities(uid, new)
    IN /\ activities' = IF hit /\ ok THEN [activities EXCEPT ![i] = new]
                        ELSE activities
       /\ last' = [op |-> "update_activities", actor |-> uid, ids |-> {i},
                   arg |-> [tipo |-> t],
                   result |-> IF ok THEN "ok" ELSE "error"]
       /\ UNCHANGED <<profiles, job_offers, applications, messages,
                      documents, selection_processes, notifications,
                      email_notifications>>
       /\ UNCHANGED other_tables

\* DELETE FROM activities WHERE id = i
DeleteActivity ==
  \E uid \in Users, i \in 1..Len(activities) :
    LET hit == RRHH_can_manage_activities(uid, activities[i])
    IN /\ activities' = IF hit THEN RemoveAt(activities, i) ELSE activities
       /\ last' = [op |-> "delete_activities", actor |-> uid, ids |-> {i},
                   arg |-> <<>>, result |-> "ok"]
       /\ UNCHANGED <<profiles, job_offers, applications, messages,
                      documents, selection_processes, notifications,
                      email_notifications>>
       /\ UNCHANGED other_tables

(***************************************************************************)
(* direct statements on email_notifications                                *)
(***************************************************************************)
EmailStatuses == {"pending", "sent", "failed"}

\* the type values of the direct inserts: one the type CHECK admits and one
\* it rejects
DirectEmailTypes == {"interview_scheduled", "other"}

\* INSERT INTO email_notifications (type, recipient_id, subject) issued by
\* a client
InsertEmail ==
  \E uid \in Users, recipient \in Users, t \in DirectEmailTypes :
    LET tx == insert_email_notification(uid,
                Email(t, recipient, <<"direct">>), BeginTx)
    IN /\ Fits(tx)
       /\ Commit(tx)
       /\ last' = [op |-> "insert_email_notifications", actor |-> uid,
                   ids |-> {Len(email_notifications) + 1},
                   arg |-> [type |-> t, recipient_id |-> recipient],
                   result |-> Result(tx)]
       /\ UNCHANGED <<profiles, job_offers, applications, messages,
                      documents, selection_processes>>
       /\ UNCHANGED other_tables

\* UPDATE email_notifications SET status = st WHERE id = i
UpdateEmail ==
  \E uid \in Users, i \in 1..Len(email_notifications),
     st \in EmailStatuses :
    LET old == email_notifications[i]
        new == [old EXCEPT !.status = st]
        hit == RRHH_can_view_all_email_notifications(uid, old)
        ok == hit => RRHH_can_view_all_email_notifications(uid, new)
    IN /\ email_notifications' =
            IF hit /\ ok THEN [email_notifications EXCEPT ![i] = new]
            ELSE email_notifications
       /\ last' = [op |-> "update_email_notifications", actor |-> uid,
                   ids |-> {i}, arg |-> [status |-> st],
                   result |-> IF ok THEN "ok" ELSE "error"]
       /\ UNCHANGED <<profiles, job_offers, applications, messages,
                      documents, selection_processes, notifications,
                      activities>>
       /\ UNCHANGED other_tables

\* DELETE FROM email_notifications WHERE id = i
DeleteEmail ==
  \E uid \in Users, i \in 1..Len(email_notifications) :
    LET hit == RRHH_can_view_all_email_notifications(uid,
                                                     email_notifications[i])
    IN /\ email_notifications' =
            IF hit THEN RemoveAt(email_notifications, i)
            ELSE email_notifications
       /\ last' = [op |-> "delete_email_notifications", actor |-> uid,
                   ids |-> {i}, arg |-> <<>>, result |-> "ok"]
       /\ UNCHANGED <<profiles, job_offers, applications, messages,
                      documents, selection_processes, notifications,
                      activities>>
       /\ UNCHANGED other_tables

(***************************************************************************)
(* skill_assessments, assessment_questions                                 *)
(***************************************************************************)
QuestionIds == 1..MaxQuestions

\* policy "RRHH can manage skill assessments" (ALL, USING and WITH CHECK)
RRHH_can_manage_skill_assessments(uid, row) == is_rrhh(uid)

\* policy "RRHH can manage assessment questions" (ALL, USING and WITH CHECK)
RRHH_can_manage_assessment_questions(uid, row) == is_rrhh(uid)

\* The rows of selection_processes a subquery run by uid sees
selection_processes_select(uid, row) ==
  \/ RRHH_can_manage_selection_processes(uid, row)
  \/ Candidates_can_view_their_own_processes(uid, row)

\* The candidates' policy with the test of required_assessments left out
Candidates_can_view_all_assessments(uid, row) ==
  \E i \in 1..Len(selection_processes) :
    /\ selection_processes_select(uid, selection_processes[i])
    /\ selection_processes[i].candidate_id = uid

\* policy "Candidates can view assigned assessments" (SELECT):
\* EXISTS (SELECT 1 FROM selection_processes WHERE candidate_id = auth.uid()
\*         AND skill_assessments.id = ANY(required_assessments))
Candidates_can_view_assigned_assessments(uid, row) ==
  \E i \in 1..Len(selection_processes) :
    /\ selection_processes_select(uid, selection_processes[i])
    /\ selection_processes[i].candidate_id = uid
    /\ row.id \in SeqToSet(selection_processes[i].required_assessments)

\* policy "Candidates can view questions for their assessments" (SELECT)
Candidates_can_view_questions_for_their_assessments(uid, row) ==
  \E i \in 1..Len(selection_processes) :
    /\ selection_processes_select(uid, selection_processes[i])
    /\ selection_processes[i].candidate_id = uid
    /\ row.assessment_id
         \in SeqToSet(selection_processes[i].required_assessments)

\* supabase.from('skill_assessments').select(): the ids of the rows the
\* policies pass
SelectAssessments(uid) ==
  {a \in skill_assessments :
     \/ RRHH_can_manage_skill_assessments(uid, [id |-> a])
     \/ Candidates_can_view_assigned_assessments(uid, [id |-> a])}

\* supabase.from('assessment_questions').select()
SelectQuestions(uid) ==
  {q \in assessment_questions :
     \/ RRHH_can_manage_assessment_questions(uid, q)
     \/ Candidates_can_view_questions_for_their_assessments(uid, q)}

\* INSERT INTO skill_assessments
InsertAssessment ==
  \E uid \in Users, a \in Assessments \ skill_assessments :
    LET ok == RRHH_can_manage_skill_assessments(uid, [id |-> a])
    IN /\ skill_assessments' = IF ok THEN skill_assessments \cup {a}
                               ELSE skill_assessments
       /\ last' = [op |-> "insert_skill_assessments", actor |-> uid,
                   ids |-> {a}, arg |-> <<>>,
                   result |-> IF ok THEN "ok" ELSE "error"]
       /\ UNCHANGED panel
       /\ UNCHANGED <<tables, auth_users, document_versions,
                      document_approvals, evaluation_templates,
                      evaluation_criteria, candidate_evaluations,
                      assessment_questions>>

\* INSERT INTO assessment_questions (assessment_id); assessment_id is a
\* foreign key to skill_assessments(id)
InsertQuestion ==
  \E uid \in Users, a \in skill_assessments,
     q \in QuestionIds \ {r.id : r \in assessment_questions} :
    LET row == [id |-> q, assessment_id |-> a]
        ok == RRHH_can_manage_assessment_questions(uid, row)
    IN /\ assessment_questions' = IF ok THEN assessment_questions \cup {row}
                                  ELSE assessment_questions
       /\ last' = [op |-> "insert_assessment_questions", actor |-> uid,
                   ids |-> {q}, arg |-> row,
                   result |-> IF ok THEN "ok" ELSE "error"]
       /\ UNCHANGED panel
       /\ UNCHANGED <<tables, auth_users, document_versions,
                      document_approvals, evaluation_templates,
                      evaluation_criteria, candidate_evaluations,
                      skill_assessments>>

(***************************************************************************)
(* NotificationsPanel                                                      *)
(***************************************************************************)
FetchLimit == 50

\* The component before it is mounted.  fetch is the position of
\* fetchNotifications' request: none, sent (not yet run by the store),
\* answered (run, response on its way, data holds its rows) or done
\* (setNotifications(data) has run).  joining says that subscribe() has
\* sent its join, subscribed that the realtime channel is joined, cursor is the number of notifications rows the
\* channel has gone past, list is the component's notifications state: row
\* numbers, newest first.
NoPanel == [user |-> NULL, fetch |-> "none", data |-> <<>>,
            subscribed |-> FALSE, joining |-> FALSE, cursor |-> 0,
            list |-> <<>>]

\* select('*').order('created_at', { ascending: false }): the rows the
\* SELECT policy passes, newest first, from row n downwards
RECURSIVE NewestFirst(_, _)
NewestFirst(uid, n) ==
  IF n = 0 THEN <<>>
  ELSE (IF n \in SelectNotifications(uid) THEN <<n>> ELSE <<>>)
       \o NewestFirst(uid, n - 1)

\* .limit(50)
Limit(rows, n) == SubSeq(rows, 1, IF Len(rows) < n THEN Len(rows) ELSE n)

\* useEffect on mount, for the signed-in identity uid: fetchNotifications()
\* sends its request, then the channel's subscribe() sends its join.
PanelMount ==
  \E uid \in Users :
    /\ panel = NoPanel
    /\ panel' = [panel EXCEPT !.user = uid, !.fetch = "sent",
                              !.joining = TRUE]
    /\ UNCHANGED <<tables, last, auth_users, document_versions,
                   document_approvals, evaluation_templates,
                   evaluation_criteria, candidate_evaluations,
                   skill_assessments, assessment_questions>>

\* The store runs the query of fetchNotifications.
FetchExecute ==
  /\ panel.fetch = "sent"
  /\ panel' = [panel EXCEPT
                 !.fetch = "answered",
                 !.data = Limit(NewestFirst(panel.user, Len(notifications)),
                                FetchLimit)]
  /\ UNCHANGED <<tables, last, auth_users, document_versions,
                 document_approvals, evaluation_templates,
                 evaluation_criteria, candidate_evaluations,
                 skill_assessments, assessment_questions>>

\* The realtime service joins the channel: INSERTs committed from now on
\* are sent to the component.
SubscribeExecute ==
  /\ panel.joining
  /\ panel' = [panel EXCEPT !.joining = FALSE, !.subscribed = TRUE,
                            !.cursor = Len(notifications)]
  /\ UNCHANGED <<tables, last, auth_users, document_versions,
                 document_approvals, evaluation_templates,
                 evaluation_criteria, candidate_evaluations,
                 skill_assessments, assessment_questions>>

\* The response of fetchNotifications arrives: if (data)
\* setNotifications(data).
FetchResponse ==
  /\ panel.fetch = "answered"
  /\ panel' = [panel EXCEPT !.fetch = "done", !.list = panel.data]
  /\ UNCHANGED <<tables, last, auth_users, document_versions,
                 document_approvals, evaluation_templates,
                 evaluation_criteria, candidate_evaluations,
                 skill_assessments, assessment_questions>>

\* The next INSERT event of the channel arrives; the service sends only
\* rows the subscriber may select.  The callback runs
\* setNotifications(current => [newNotification, ...current]).
RealtimeDeliver ==
  /\ panel.subscribed
  /\ panel.cursor < Len(notifications)
  /\ LET n == panel.cursor + 1
     IN panel' = [panel EXCEPT
                    !.cursor = n,
                    !.list = IF n \in SelectNotifications(panel.user)
                             THEN <<n>> \o @ ELSE @]
  /\ UNCHANGED <<tables, last, auth_users, document_versions,
                 document_approvals, evaluation_templates,
                 evaluation_criteria, candidate_evaluations,
                 skill_assessments, assessment_questions>>

(***************************************************************************)
(* profiles                                                                *)
(***************************************************************************)
\* policy "Users can update their own profile" (UPDATE, USING, WITH CHECK)
Users_can_update_their_own_profile(uid, row) == row.id = uid

\* UPDATE profiles SET role = r, with no WHERE clause: the statement targets
\* the rows the policy's USING passes, and the policy's WITH CHECK is the
\* same test on the new row.
UpdateProfile ==
  \E uid \in Users, r \in Roles :
    /\ profiles' = [u \in Users |->
                      IF Users_can_update_their_own_profile(uid, profiles[u])
                      THEN [profiles[u] EXCEPT !.role = r]
                      ELSE profiles[u]]
    /\ last' = [op |-> "update_profiles", actor |-> uid,
                ids |-> {u \in Users :
                           Users_can_update_their_own_profile(uid,
                                                              profiles[u])},
                arg |-> [role |-> r], result |-> "ok"]
    /\ UNCHANGED <<job_offers, applications, messages, documents,
                   selection_processes, notifications,
                   email_notifications, activities>>
    /\ UNCHANGED other_tables

\* the identities that may register
NewIdentities == {"u4", "u5"}

\* The policies of profiles that apply to INSERT: the table has row-level
\* security enabled and policies for SELECT and UPDATE only, so no policy
\* admits a new row.
profiles_insert_check(uid, row) == FALSE

\* AuthForm.handleSubmit in mode 'signup': supabase.auth.signUp creates the
\* identity; then, as a second request, INSERT INTO profiles (id, role)
\* with id = the new identity.  No trigger on auth.users creates a profile.
SignUp ==
  \E id \in NewIdentities \ auth_users, r \in Roles :
    LET row == [id |-> id, role |-> r]
        ok == profiles_insert_check(id, row)
    IN /\ auth_users' = auth_users \cup {id}
       /\ profiles' = IF ok
                      THEN [u \in DOMAIN profiles \cup {id} |->
                              IF u = id THEN row ELSE profiles[u]]
                      ELSE profiles
       /\ last' = [op |-> "signup", actor |-> id, ids |-> {},
                   arg |-> row, result |-> IF ok THEN "ok" ELSE "error"]
       /\ UNCHANGED panel
       /\ UNCHANGED <<job_offers, applications, messages, documents,
                      selection_processes, notifications,
                      email_notifications, activities, document_versions,
                      document_approvals, evaluation_templates,
                      evaluation_criteria, candidate_evaluations,
                      skill_assessments, assessment_questions>>

(***************************************************************************)
(* Specifications                                                          *)
(***************************************************************************)
Init ==
  /\ profiles = [u \in Users |->
                   [id |-> u, role |-> IF u = "u1" THEN "rrhh"
                                       ELSE "candidato"]]
  /\ job_offers = <<>>
  /\ applications = <<>>
  /\ messages = <<>>
  /\ documents = <<>>
  /\ selection_processes = <<>>
  /\ notifications = <<>>
  /\ email_notifications = <<>>
  /\ activities = <<>>
  /\ auth_users = Users
  /\ document_versions = <<>>
  /\ document_approvals = <<>>
  /\ evaluation_templates = {}
  /\ evaluation_criteria = {}
  /\ candidate_evaluations = {}
  /\ skill_assessments = {}
  /\ assessment_questions = {}
  /\ panel = NoPanel
  /\ last = [op |-> "none", actor |-> NULL, ids |-> {}, arg |-> <<>>,
             result |-> "ok"]

NextProcess == InsertProcess \/ UpdateProcess
SpecProcess == Init /\ [][NextProcess]_vars

NextMessage ==
  \/ InsertApplication
  \/ InsertMessage
  \/ UpdateMessage
  \/ DeleteMessage
SpecMessage == Init /\ [][NextMessage]_vars

NextInbox ==
  \/ UpdateProfile
  \/ InsertMessage
  \/ UpdateMessage
  \/ DeleteMessage
SpecInbox == Init /\ [][NextInbox]_vars

NextTemplate ==
  \/ InsertTemplate
  \/ InsertCriterion
  \/ InsertEvaluation
  \/ DeleteTemplate
SpecTemplate == Init /\ [][NextTemplate]_vars

NextEvaluation == InsertProcess \/ InsertEvaluation \/ UpdateEvaluation
SpecEvaluation == Init /\ [][NextEvaluation]_vars

NextApproval ==
  \/ InsertDocument
  \/ InsertApproval
  \/ UpdateApproval
  \/ DeleteApproval
SpecApproval == Init /\ [][NextApproval]_vars

NextActivity ==
  \/ InsertJobOffer
  \/ UpdateJobOffer
  \/ UpdateActivity
  \/ DeleteActivity
SpecActivity == Init /\ [][NextActivity]_vars

NextEmail ==
  \/ InsertProcess
  \/ UpdateProcess
  \/ InsertEmail
  \/ UpdateEmail
  \/ DeleteEmail
SpecEmail == Init /\ [][NextEmail]_vars

NextSignUp == SignUp \/ UpdateProfile
SpecSignUp == Init /\ [][NextSignUp]_vars

NextAssessment ==
  \/ InsertProcess
  \/ UpdateProcess
  \/ InsertAssessment
  \/ InsertQuestion
SpecAssessment == Init /\ [][NextAssessment]_vars

NextPanel ==
  \/ InsertApplication
  \/ UpdateApplication
  \/ PanelMount
  \/ FetchExecute
  \/ SubscribeExecute
  \/ FetchResponse
  \/ RealtimeDeliver
SpecPanel == Init /\ [][NextPanel]_vars

NextApply ==
  \/ InsertJobOffer
  \/ UpdateJobOffer
  \/ InsertApplication
SpecApply == Init /\ [][NextApply]_vars

NextDocument == InsertDocument \/ UpdateDocument \/ UpdateDocumentFile
SpecDocument == Init /\ [][NextDocument]_vars

NextJobOffer ==
  \/ InsertJobOffer
  \/ UpdateJobOffer
  \/ DeleteJobOffer
SpecJobOffer == Init /\ [][NextJobOffer]_vars

NextOffer == UpdateProfile \/ InsertJobOffer \/ UpdateJobOffer
SpecOffer == Init /\ [][NextOffer]_vars

NextApplication ==
  \/ UpdateProfile
  \/ InsertApplication
  \/ UpdateApplication
SpecApplication == Init /\ [][NextApplication]_vars

NextNotification ==
  \/ InsertApplication
  \/ UpdateApplication
  \/ UpdateNotification
  \/ DeleteNotification
SpecNotification == Init /\ [][NextNotification]_vars

(***************************************************************************)
(* Claims about messages (SpecMessage, SpecInbox)                          *)
(***************************************************************************)
\* C2 (as claimed): every insert of a message by an identity with sender_id
\* equal to its own id commits and appends exactly one notification of type
\* 'message' for the receiver, with related_id the message's application_id.
C2_MessageInsertNotifiesReceiver ==
  [][(last'.op = "insert_messages" /\ last'.arg.sender_id = last'.actor)
     => /\ last'.result = "ok"
        /\ messages' = Append(messages, last'.arg)
        /\ Len(notifications') = Len(notifications) + 1
        /\ LET n == notifications'[Len(notifications')]
           IN /\ n.type = "message"
              /\ n.user_id = last'.arg.receiver_id
              /\ n.related_id = last'.arg.application_id]_vars

\* C7: only the sender and the receiver of a message can read it, and the
\* read flag of a stored message changes only from false to true and only
\* by a statement of its receiver.
C7_MessagesPrivateAndReadMonotonic ==
  [][/\ \A u \in Users : \A i \in SelectMessages(u)' :
          u \in {messages'[i].sender_id, messages'[i].receiver_id}
     /\ \A i \in 1..Len(messages) :
          /\ messages'[i].sender_id = messages[i].sender_id
          /\ messages'[i].receiver_id = messages[i].receiver_id
          /\ messages'[i].read # messages[i].read
             => /\ messages[i].read = FALSE
                /\ messages'[i].read = TRUE
                /\ last'.actor = messages[i].receiver_id]_vars

\* C7 witness: a message between two identities that a third one cannot
\* read, after its receiver has issued the mark-as-read update.
C7_Witness ==
  /\ Len(messages) >= 1
  /\ messages[1].sender_id # messages[1].receiver_id
  /\ \E u \in Users : 1 \notin SelectMessages(u)
  /\ 1 \in SelectMessages(messages[1].sender_id)
  /\ 1 \in SelectMessages(messages[1].receiver_id)
  /\ last.op = "update_messages"
  /\ last.actor = messages[1].receiver_id
  /\ last.arg.read = TRUE

\* C23 (as claimed): when the receiver of a stored unread message issues
\* UPDATE messages SET read = true on it (fetchMessages, or the realtime
\* callback), the update is accepted and the stored read flag becomes true.
C23_ReceiverMarksMessageRead ==
  [][\A i \in 1..Len(messages) :
       (/\ last'.op = "update_messages"
        /\ i \in last'.ids
        /\ last'.arg.read = TRUE
        /\ last'.actor = messages[i].receiver_id
        /\ messages[i].read = FALSE)
       => /\ last'.result = "ok"
          /\ messages'[i].read = TRUE]_vars

(***************************************************************************)
(* Claims about documents (SpecDocument)                                   *)
(***************************************************************************)
\* C3 (as claimed): a document inserted by its owner commits; with
\* expiry_date in (now, now + 30 days] it appends one expiry notification
\* for the owner, with expiry_date later than that or NULL it appends none.
C3_DocumentInsertExpiryNotice ==
  [][(last'.op = "insert_documents" /\ last'.arg.user_id = last'.actor)
     => LET exp == last'.arg.expiry_date
        IN /\ (exp.null \/ exp.days > 0)
              => /\ last'.result = "ok"
                 /\ documents' = Append(documents, last'.arg)
           /\ (~exp.null /\ exp.days > 0 /\ exp.days <= ExpiryWindowDays)
              => /\ Len(notifications') = Len(notifications) + 1
                 /\ notifications'[Len(notifications')].user_id =
                      last'.arg.user_id
           /\ (exp.null \/ exp.days > ExpiryWindowDays)
              => notifications' = notifications]_vars

\* C13 (as claimed): every run of the file update of a document by its
\* owner leaves the document pending with its version increased by one and
\* appends one document_versions row holding the replaced version and
\* file_url.
C13_FileUpdateAppendsVersion ==
  [][\A i \in 1..Len(documents) :
       (/\ last'.op = "handleUpdateDocument"
        /\ last'.ids = {i}
        /\ last'.actor = documents[i].user_id)
       => /\ documents'[i].status = "pending"
          /\ documents'[i].version = documents[i].version + 1
          /\ document_versions' =
               Append(document_versions,
                      [id |-> Len(document_versions) + 1,
                       document_id |-> i,
                       version |-> documents[i].version,
                       file_url |-> documents[i].file_url])]_vars

\* C28 (as claimed): in every reachable state, for every document with
\* current version v, each version 1..v-1 has exactly one document_versions
\* row, holding the file_url that version had (the k-th upload of a
\* document is the file of its version k).
C28_VersionHistoryComplete ==
  \A i \in 1..Len(documents) :
    \A k \in 1..(documents[i].version - 1) :
      /\ Cardinality({j \in 1..Len(document_versions) :
                        /\ document_versions[j].document_id = documents[i].id
                        /\ document_versions[j].version = k}) = 1
      /\ \A j \in 1..Len(document_versions) :
           (/\ document_versions[j].document_id = documents[i].id
            /\ document_versions[j].version = k)
           => document_versions[j].file_url = k

(***************************************************************************)
(* Claims about evaluation templates (SpecTemplate)                        *)
(***************************************************************************)
\* C14 (as claimed): every delete of an evaluation template by an rrhh
\* identity succeeds, removes the template and the criteria of that
\* template, and leaves the other templates and criteria unchanged.
C14_TemplateDeleteCascades ==
  [][(last'.op = "delete_evaluation_templates" /\ is_rrhh(last'.actor))
     => /\ last'.result = "ok"
        /\ evaluation_templates' = evaluation_templates \ last'.ids
        /\ evaluation_criteria' =
             {r \in evaluation_criteria : r.template_id \notin last'.ids}]_vars

\* C14 (amended): a delete of an evaluation template by an rrhh identity
\* succeeds and removes the template and exactly the criteria of that
\* template when no candidate evaluation references the template; when one
\* does, the delete is rejected and templates and criteria are unchanged.
C14_UnreferencedTemplateDeleteCascades ==
  [][(last'.op = "delete_evaluation_templates" /\ is_rrhh(last'.actor))
     => IF \E r \in candidate_evaluations : r.template_id \in last'.ids
        THEN /\ last'.result = "error"
             /\ evaluation_templates' = evaluation_templates
             /\ evaluation_criteria' = evaluation_criteria
        ELSE /\ last'.result = "ok"
             /\ evaluation_templates' = evaluation_templates \ last'.ids
             /\ evaluation_criteria' =
                  {r \in evaluation_criteria :
                     r.template_id \notin last'.ids}]_vars

\* C14 witness: a template was deleted by an rrhh identity while another
\* template keeps its criterion and the deleted one has none left.
C14_Witness ==
  /\ last.op = "delete_evaluation_templates"
  /\ last.result = "ok"
  /\ is_rrhh(last.actor)
  /\ last.ids \cap evaluation_templates = {}
  /\ \E r \in evaluation_criteria : r.template_id \in evaluation_templates
  /\ \A r \in evaluation_criteria : r.template_id \notin last.ids
  /\ Cardinality(evaluation_criteria) < MaxCriteria

(***************************************************************************)
(* Claims about candidate evaluations (SpecEvaluation)                     *)
(***************************************************************************)
\* C19 (as claimed): an update by an rrhh identity that sets the status of
\* a candidate evaluation to 'completed' commits and appends one email of
\* type 'evaluation_complete' whose recipient is the candidate of the
\* evaluation's selection process.
C19_CompletedEvaluationNotifies ==
  [][\A old \in candidate_evaluations :
       (/\ last'.op = "update_candidate_evaluations"
        /\ last'.ids = {old.id}
        /\ is_rrhh(last'.actor)
        /\ last'.arg.status = "completed"
        /\ old.process_id # NoId)
       => /\ last'.result = "ok"
          /\ Len(email_notifications') = Len(email_notifications) + 1
          /\ LET e == email_notifications'[Len(email_notifications')]
             IN /\ e.type = "evaluation_complete"
                /\ e.recipient_id =
                     selection_processes[old.process_id].candidate_id]_vars

(***************************************************************************)
(* Claims about skill assessments (SpecAssessment)                         *)
(***************************************************************************)
\* The assessments in the required_assessments of the processes of c
RequiredOf(c) ==
  UNION {SeqToSet(selection_processes[i].required_assessments) :
           i \in {j \in 1..Len(selection_processes) :
                    selection_processes[j].candidate_id = c}}

\* C20: an identity whose role is candidato reads a skill assessment, or a
\* question of it, exactly when the assessment is in the
\* required_assessments of one of that identity's selection processes.
C20_AssignedAssessmentsReadable ==
  \A c \in Users :
    profiles[c].role = "candidato"
    => /\ SelectAssessments(c) = skill_assessments \cap RequiredOf(c)
       /\ SelectQuestions(c) =
            {q \in assessment_questions : q.assessment_id \in RequiredOf(c)}

\* C20 witness: an rrhh identity has just emptied the required_assessments
\* of a candidate's process; the candidate reads neither the stored
\* assessment nor its question, which the rrhh identity does read.
C20_Witness ==
  /\ last.op = "update_selection_processes"
  /\ last.result = "ok"
  /\ last.arg.cols = {"required_assessments"}
  /\ last.arg.required_assessments = <<>>
  /\ Len(email_notifications) >= 1
  /\ \E i \in last.ids :
       LET c == selection_processes[i].candidate_id
       IN /\ profiles[c].role = "candidato"
          /\ SelectAssessments(c) = {}
          /\ SelectQuestions(c) = {}
  /\ SelectAssessments(last.actor) # {}
  /\ SelectQuestions(last.actor) # {}

(***************************************************************************)
(* Claims about statements on job_offers (SpecJobOffer)                    *)
(***************************************************************************)
JobOfferOps == {"insert_job_offers", "update_job_offers", "delete_job_offers"}

\* C21: an INSERT, UPDATE or DELETE on job_offers issued by an identity whose
\* profile role is not rrhh leaves job_offers (and the activity log)
\* unchanged: the INSERT is rejected, the UPDATE and the DELETE affect no row.
C21_JobOffersWrittenByRRHHOnly ==
  [][(last'.op \in JobOfferOps /\ ~is_rrhh(last'.actor))
     => /\ job_offers' = job_offers
        /\ activities' = activities
        /\ last'.op = "insert_job_offers" => last'.result = "error"
        /\ last'.op # "insert_job_offers" => last'.result = "ok"]_vars

\* C21 witness: an identity that is not rrhh has just issued a DELETE on a
\* stored open job offer, which it can read, and the offer is still stored.
C21_Witness ==
  /\ last.op = "delete_job_offers"
  /\ ~is_rrhh(last.actor)
  /\ last.result = "ok"
  /\ \E i \in last.ids :
       /\ i \in SelectJobOffers(last.actor)
       /\ job_offers[i] = last.arg

\* C22 (as claimed): an INSERT, UPDATE or DELETE of a job offer by an rrhh
\* identity commits and appends exactly one activities row of type creacion,
\* modificacion or eliminacion, with usuario_id = the offer's created_by and
\* oferta_id = the offer's id.
C22_JobOfferWritesLogged ==
  [][(last'.op \in JobOfferOps /\ is_rrhh(last'.actor))
     => LET offer == IF last'.op = "insert_job_offers" THEN last'.arg
                     ELSE job_offers[CHOOSE i \in last'.ids : TRUE]
        IN offer.created_by # NULL
           => /\ last'.result = "ok"
              /\ Len(activities') >= 1
              /\ last'.op # "delete_job_offers"
                 => Len(activities') = Len(activities) + 1
              /\ activities'[Len(activities')] =
                   [tipo |-> CASE last'.op = "insert_job_offers" -> "creacion"
                               [] last'.op = "update_job_offers"
                                    -> "modificacion"
                               [] OTHER -> "eliminacion",
                    usuario_id |-> offer.created_by,
                    oferta_id |-> offer.id]]_vars

(***************************************************************************)
(* Claims about document_approvals, activities and email_notifications     *)
(* (SpecApproval, SpecActivity, SpecEmail)                                 *)
(***************************************************************************)
\* C15 (as claimed): document approvals are append-only: a row is added
\* only by a statement of an rrhh identity, and no statement of any
\* identity changes or removes a stored row.
C15_ApprovalsAppendOnly ==
  [][/\ Len(document_approvals') >= Len(document_approvals)
     /\ \A i \in 1..Len(document_approvals) :
          i <= Len(document_approvals')
            => document_approvals'[i] = document_approvals[i]
     /\ Len(document_approvals') > Len(document_approvals)
        => is_rrhh(last'.actor)]_vars

\* C16 (as claimed): no identity whose role is candidato reads an activity
\* row, and no statement of any identity changes or removes a stored
\* activity row.
C16_ActivitiesAppendOnly ==
  [][/\ \A u \in Users :
          profiles[u].role = "candidato" => SelectActivities(u)' = {}
     /\ Len(activities') >= Len(activities)
     /\ \A i \in 1..Len(activities) :
          i <= Len(activities') => activities'[i] = activities[i]]_vars

\* C17 (as claimed): no statement issued directly on email_notifications,
\* by any identity, adds, changes or removes a row; the table changes only
\* through the triggers of other tables.
C17_EmailsNotDirectlyEditable ==
  [][last'.op \in {"insert_email_notifications",
                   "update_email_notifications",
                   "delete_email_notifications"}
     => /\ email_notifications' = email_notifications
        /\ (last'.op = "insert_email_notifications"
            => last'.result = "error")]_vars

(***************************************************************************)
(* Claims about identities and profiles (SpecSignUp)                       *)
(***************************************************************************)
\* C18 (as claimed): every identity has a profile row (the primary key of
\* profiles allows at most one).
C18_EveryIdentityHasOneProfile ==
  \A u \in auth_users : u \in DOMAIN profiles

\* C27 (as claimed): no UPDATE of profiles issued by an identity whose role
\* is not rrhh gives the role rrhh to a profile that did not have it.
C27_NoSelfPromotion ==
  [][(last'.op = "update_profiles" /\ ~is_rrhh(last'.actor))
     => \A u \in Users :
          profiles'[u].role = "rrhh" => profiles[u].role = "rrhh"]_vars

(***************************************************************************)
(* Claims about job_offers (SpecOffer)                                     *)
(***************************************************************************)
NewNotifications ==
  SubSeq(notifications', Len(notifications) + 1, Len(notifications'))

\* C6: an insert of a job offer by an rrhh identity (with a creator)
\* commits, and every committed insert appends exactly one notification of
\* type 'new_job_offer' with related_id the new offer's id for each profile
\* whose role is not rrhh, and none for an rrhh profile.
C6_JobOfferBroadcast ==
  [][last'.op = "insert_job_offers"
     => /\ (is_rrhh(last'.actor) /\ last'.arg.created_by # NULL)
           => last'.result = "ok"
        /\ last'.result = "ok"
           => /\ job_offers' = Append(job_offers, last'.arg)
              /\ SubSeq(notifications', 1, Len(notifications))
                   = notifications
              /\ \A k \in 1..Len(NewNotifications) :
                   /\ NewNotifications[k].type = "new_job_offer"
                   /\ NewNotifications[k].related_id = last'.arg.id
              /\ \A u \in Users :
                   Cardinality({k \in 1..Len(NewNotifications) :
                                  NewNotifications[k].user_id = u})
                     = IF profiles[u].role # "rrhh" THEN 1 ELSE 0]_vars

\* C6 witness: an offer was published while one profile was rrhh and two
\* were not, and two notifications were appended.
C6_Witness ==
  /\ last.op = "insert_job_offers"
  /\ last.result = "ok"
  /\ Len(job_offers) = 1
  /\ Cardinality({u \in Users : profiles[u].role # "rrhh"}) = 2
  /\ Len(notifications) = 2
  /\ notifications[1].user_id # notifications[2].user_id

\* C10: an identity whose role is candidato cannot read a job offer whose
\* estado is not 'abierta' and that it did not create.
C10_ClosedOffersHiddenFromCandidates ==
  \A u \in Users : \A i \in 1..Len(job_offers) :
    (/\ profiles[u].role = "candidato"
     /\ job_offers[i].estado # "abierta"
     /\ job_offers[i].created_by # u)
    => i \notin SelectJobOffers(u)

\* C10 witness: an rrhh identity has just closed an offer, which the rrhh
\* identity reads and a candidate does not.
C10_Witness ==
  /\ last.op = "update_job_offers"
  /\ last.result = "ok"
  /\ is_rrhh(last.actor)
  /\ last.arg.estado = "cerrada"
  /\ job_offers[1].estado = "cerrada"
  /\ 1 \in SelectJobOffers(last.actor)
  /\ \E u \in Users : profiles[u].role = "candidato"
                      /\ 1 \notin SelectJobOffers(u)

C4_ApplicationStatusNotification ==
  [][\A i \in 1..Len(applications) :
       (/\ last'.op = "update_applications"
        /\ last'.ids = {i}
        /\ is_rrhh(last'.actor)
        /\ applications[i].estado = "pendiente"
        /\ last'.arg.estado = "aceptada")
       => /\ last'.result = "ok"
          /\ applications'[i].estado = "aceptada"
          /\ Len(notifications') = Len(notifications) + 1
          /\ SubSeq(notifications', 1, Len(notifications)) = notifications
          /\ LET n == notifications'[Len(notifications')]
             IN /\ n.type = "application_status"
                /\ n.user_id = applications[i].user_id
                /\ "aceptada" \in SeqToSet(n.content)
                /\ \A u \in Users :
                     Users_can_read_their_notifications(u, n)
                       <=> u = applications[i].user_id]_vars

\* C4 witness: an application was accepted by an rrhh identity and its
\* owner holds the notification.
C4_Witness ==
  /\ last.op = "update_applications"
  /\ last.result = "ok"
  /\ is_rrhh(last.actor)
  /\ last.arg.estado = "aceptada"
  /\ applications[1].estado = "aceptada"
  /\ Len(notifications) >= 1
  /\ notifications[Len(notifications)] =
       Notification(applications[1].user_id, "application_status",
                    <<"Tu postulacion ha sido ", "aceptada">>,
                    applications[1].job_offer_id)
  /\ applications[1].user_id # last.actor

\* C9 (as claimed): the estado of an application is set to a value other
\* than pendiente, by an insert or by an update, only by a statement of an
\* rrhh identity.
C9_ApplicationStatusByRRHHOnly ==
  [][\A i \in 1..Len(applications') :
       (/\ applications'[i].estado # "pendiente"
        /\ (i > Len(applications)
            \/ applications'[i].estado # applications[i].estado))
       => is_rrhh(last'.actor)]_vars

\* C26: an UPDATE of an application appends one notifications row when it
\* changes the stored estado and none when it leaves estado as it was
\* (the same value assigned again, or no row updated), so the same estado
\* applied twice in succession yields one notification.
C26_ApplicationNotificationOnChangeOnly ==
  [][last'.op = "update_applications"
     => \A i \in last'.ids :
          /\ applications'[i].estado = applications[i].estado
             => notifications' = notifications
          /\ applications'[i].estado # applications[i].estado
             => Len(notifications') = Len(notifications) + 1]_vars

\* C26 witness: an rrhh identity has just assigned 'pendiente' to a stored
\* application that has been 'pendiente' since its insert; the update
\* committed and there is no notification.
C26_Witness ==
  /\ last.op = "update_applications"
  /\ last.result = "ok"
  /\ is_rrhh(last.actor)
  /\ last.arg.estado = "pendiente"
  /\ \E i \in last.ids : applications[i].estado = "pendiente"
  /\ notifications = <<>>

\* C30 (as claimed): no INSERT into applications that names a job offer
\* whose estado is 'cerrada' at that moment is accepted, whether it comes
\* from JobOfferDetail.handleApply on a page loaded while the offer was
\* open or is issued directly.
C30_NoApplicationForClosedOffer ==
  [][(/\ last'.op = "insert_applications"
      /\ last'.arg.job_offer_id # NoId
      /\ job_offers[last'.arg.job_offer_id].estado = "cerrada")
     => /\ last'.result = "error"
        /\ applications' = applications]_vars

(***************************************************************************)
(* Claims about notifications (SpecNotification)                           *)
(***************************************************************************)
\* C8: only the identity a notification is addressed to can read it; a
\* stored notification changes only by an update of that identity, and
\* then only in its read flag, from false to true.
C8_NotificationsOwnerOnly ==
  [][/\ \A u \in Users : \A i \in SelectNotifications(u)' :
          notifications'[i].user_id = u
     /\ \A i \in 1..Len(notifications) :
          notifications'[i] # notifications[i]
          => /\ last'.op = "update_notifications"
             /\ last'.actor = notifications[i].user_id
             /\ notifications[i].read = FALSE
             /\ notifications'[i] = [notifications[i] EXCEPT !.read = TRUE]
     /\ (last'.op = "update_notifications" /\ last'.arg.col # "read")
        => notifications' = notifications]_vars

\* C8 witness: the addressee of a notification that another identity cannot
\* read has issued an update of it.
C8_Witness ==
  /\ last.op = "update_notifications"
  /\ \E i \in last.ids :
       /\ last.actor = notifications[i].user_id
       /\ i \in SelectNotifications(last.actor)
       /\ \E u \in Users : i \notin SelectNotifications(u)
  /\ last.arg.col = "content"

\* C24 (as claimed): when the recipient of a stored unread notification
\* calls markAsRead on it (UPDATE notifications SET read = true WHERE id =
\* i), the update is accepted and the stored read flag becomes true.
C24_RecipientMarksNotificationRead ==
  [][\A i \in 1..Len(notifications) :
       (/\ last'.op = "update_notifications"
        /\ i \in last'.ids
        /\ last'.arg.col = "read"
        /\ last'.arg.read = TRUE
        /\ last'.actor = notifications[i].user_id
        /\ notifications[i].read = FALSE)
       => /\ last'.result = "ok"
          /\ notifications'[i].read = TRUE]_vars

(***************************************************************************)
(* Claims about the NotificationsPanel (SpecPanel)                         *)
(***************************************************************************)
\* The number of times row n is in the component's list
Shown(n) == Cardinality({k \in 1..Len(panel.list) : panel.list[k] = n})

\* C29 (as claimed): once the response of fetchNotifications has been
\* handled and every realtime event sent so far has been delivered, the
\* component's list holds each stored notification of its user exactly once
\* and nothing else.
C29_PanelListsEachNotificationOnce ==
  (/\ panel.fetch = "done"
   /\ panel.subscribed
   /\ panel.cursor = Len(notifications))
  => \A n \in 1..Len(notifications) :
       Shown(n) = IF n \in SelectNotifications(panel.user) THEN 1 ELSE 0

====
